---- MODULE Spec2Model ----
(***************************************************************************)
(* A model of eyre-span (src/src/lib.rs): the eyre handler that captures   *)
(* the tracing span current at error creation, the strip_ansi filter, the  *)
(* span trace rendering of Handler::display, ReportSpan::span, emit and    *)
(* install.                                                                *)
(*                                                                         *)
(* Text is a sequence of one-character strings; ESC stands for the         *)
(* character 0x1B.  Whole chunks written by one write! argument (the       *)
(* error's message, a span's target or name) are one string each.          *)
(*                                                                         *)
(* The collaborators the crate calls are modelled by what they do:         *)
(*   eyre     HOOK is a once-cell; set_hook fails when it is set; creating *)
(*            a Report with no hook set registers eyre's default hook      *)
(*            (the auto-install feature, on by default).                   *)
(*   tracing  a disabled span (Span::none) is entered and exited as a      *)
(*            no-op; Span::current is the disabled span when no span is    *)
(*            entered.                                                     *)
(*   tracing_subscriber  the registry's per-thread span stack: an entry    *)
(*            pushed while its id is already on the stack is a duplicate,  *)
(*            the current span is the topmost non-duplicate entry, exit    *)
(*            removes the topmost entry of that id.                        *)
(*   tracing_error  SpanTrace::with_spans walks the span and its ancestors *)
(*            innermost first while the callback returns true (an          *)
(*            ErrorLayer is part of the subscriber).                       *)
(***************************************************************************)
EXTENDS Integers, Sequences, FiniteSets, TLC

VARIABLES
    hook,           \* eyre's HOOK once-cell: "unset", "default" or "eyre_span"
    installCalled,  \* history: install has been called at least once
    reports,        \* the Reports created so far, in creation order
    stack,          \* the thread's span stack (registry), bottom first
    fields,         \* the formatted field text of each span
    log,            \* the events the subscriber received, oldest first
    text,           \* the input of the strip_ansi driver
    ret             \* the outcome of the most recent operation

vars == <<hook, installCalled, reports, stack, fields, log, text, ret>>

\* ------------------------------------------------------------------ bounds
NSpans == 3
MaxDepth == 2
MaxReports == 1
MaxLen == 5

\* ------------------------------------------------------------------- text
ESC == "ESC"
Alphabet == {ESC, "m", "[", "a"}

RECURSIVE SeqsUpTo(_)
SeqsUpTo(n) ==
    IF n = 0 THEN {<<>>}
    ELSE LET shorter == SeqsUpTo(n - 1)
         IN  shorter \cup {Append(s, c) : s \in {t \in shorter : Len(t) = n - 1}, c \in Alphabet}

Texts == SeqsUpTo(MaxLen)

\* The closure of s.retain (lib.rs 53-57) run over s from left to right with
\* the captured flag keep: the characters for which it returns true.
RECURSIVE strip_retain(_, _)
strip_retain(s, keep) ==
    IF s = <<>> THEN <<>>
    ELSE LET c == Head(s)
         IN  IF c = ESC THEN strip_retain(Tail(s), FALSE)
             ELSE IF c = "m" /\ ~keep THEN strip_retain(Tail(s), TRUE)
             ELSE IF keep THEN <<c>> \o strip_retain(Tail(s), keep)
             ELSE strip_retain(Tail(s), keep)

\* Faulty variant: the guard of the 'm' arm is missing, every 'm' is dropped.
RECURSIVE strip_every_m(_, _)
strip_every_m(s, keep) ==
    IF s = <<>> THEN <<>>
    ELSE LET c == Head(s)
         IN  IF c = ESC THEN strip_every_m(Tail(s), FALSE)
             ELSE IF c = "m" THEN strip_every_m(Tail(s), TRUE)
             ELSE IF keep THEN <<c>> \o strip_every_m(Tail(s), keep)
             ELSE strip_every_m(Tail(s), keep)

strip_ansi_every_m(s) == strip_every_m(s, TRUE)

\* Faulty variant: the escape arm drops the escape but leaves keep set.
RECURSIVE strip_esc_only(_, _)
strip_esc_only(s, keep) ==
    IF s = <<>> THEN <<>>
    ELSE LET c == Head(s)
         IN  IF c = ESC THEN strip_esc_only(Tail(s), keep)
             ELSE IF c = "m" /\ ~keep THEN strip_esc_only(Tail(s), TRUE)
             ELSE IF keep THEN <<c>> \o strip_esc_only(Tail(s), keep)
             ELSE strip_esc_only(Tail(s), keep)

strip_ansi_esc_only(s) == strip_esc_only(s, TRUE)

\* Faulty variant: the escape arm clears keep but retains the escape.
RECURSIVE strip_keep_esc(_, _)
strip_keep_esc(s, keep) ==
    IF s = <<>> THEN <<>>
    ELSE LET c == Head(s)
         IN  IF c = ESC THEN <<c>> \o strip_keep_esc(Tail(s), FALSE)
             ELSE IF c = "m" /\ ~keep THEN strip_keep_esc(Tail(s), TRUE)
             ELSE IF keep THEN <<c>> \o strip_keep_esc(Tail(s), keep)
             ELSE strip_keep_esc(Tail(s), keep)

strip_ansi_keep_esc(s) == strip_keep_esc(s, TRUE)

strip_ansi(s) == strip_retain(s, TRUE)

\* ------------------------------------------------------------------ spans
\* The spans of the program: span i was created inside span i - 1, span 1 at
\* the root.  NoSpan is the disabled span, Span::none().
Spans == 1..NSpans
NoSpan == 0
ParentOf(i) == i - 1
SpanTarget(i) == "mod" \o ToString(i)
SpanName(i) == "span" \o ToString(i)

\* The field texts a span may carry: none, plain, coloured, colour only,
\* and one ending in an unterminated escape.
FieldTexts ==
    { <<>>, <<"a">>, <<ESC, "[", "m", "a", ESC, "[", "m">>, <<ESC, "[", "m">>,
      <<"a", "m", ESC, "[">> }

\* The field texts of spans 1..n in the main specification: odd spans carry
\* no fields, even spans a coloured field.
RECURSIVE FieldsUpTo(_)
FieldsUpTo(n) ==
    IF n = 0 THEN <<>>
    ELSE Append(FieldsUpTo(n - 1),
                IF n % 2 = 1 THEN <<>> ELSE <<ESC, "[", "m", "a", ESC, "[", "m">>)

DefaultFields == FieldsUpTo(NSpans)

\* Registry span stack: push marks an id already on the stack as a duplicate.
StackPush(stk, id) ==
    Append(stk, [id |-> id, duplicate |-> \E k \in 1..Len(stk) : stk[k].id = id])

\* Registry span stack: pop removes the topmost entry of that id, if any.
StackPop(stk, id) ==
    LET hits == {k \in 1..Len(stk) : stk[k].id = id}
    IN  IF hits = {} THEN stk
        ELSE LET idx == CHOOSE k \in hits : \A j \in hits : j <= k
             IN  SubSeq(stk, 1, idx - 1) \o SubSeq(stk, idx + 1, Len(stk))

\* Span::current(): the topmost non-duplicate entry, the disabled span if none.
SpanCurrent(stk) ==
    LET real == {k \in 1..Len(stk) : ~stk[k].duplicate}
    IN  IF real = {} THEN NoSpan
        ELSE stk[CHOOSE k \in real : \A j \in real : j <= k].id

\* Span::enter / the drop of its guard: no-ops on the disabled span.
SpanEnter(stk, sp) == IF sp = NoSpan THEN stk ELSE StackPush(stk, sp)
SpanExit(stk, sp) == IF sp = NoSpan THEN stk ELSE StackPop(stk, sp)

\* Faulty variant: the guard is not dropped.
in_scope_leak(stk, sp) ==
    [inside |-> SpanEnter(stk, sp), after |-> SpanEnter(stk, sp)]

\* Span::in_scope(f): the stack while f runs and the stack once the guard is
\* dropped, which happens when f returns and when it unwinds.
in_scope(stk, sp) ==
    [inside |-> SpanEnter(stk, sp), after |-> SpanExit(SpanEnter(stk, sp), sp)]

\* ---------------------------------------------------------------- handler
\* The hook closure of install: a Handler holding the span current when the
\* Report is created.
hook_closure(stk) == [kind |-> "Handler", span |-> SpanCurrent(stk)]

\* eyre's default hook, registered when a Report is created with no hook set.
default_hook(stk) == [kind |-> "Default", span |-> NoSpan]

\* The literal that starts a trace line: a newline, U+2022 and a space.
Bullet == "\nU+2022 "

\* Faulty variant: the callback returns whether the span has fields.
trace_callback_stop(i, flds) ==
    [ out  |-> <<Bullet, SpanTarget(i), "::", SpanName(i)>> \o
               (IF flds # <<>> THEN <<"{">> \o strip_ansi(flds) \o <<"}">> ELSE <<>>),
      cont |-> flds # <<>> ]

\* The callback given to with_spans: the text it appends for one span and
\* whether the walk continues.
trace_callback(i, flds) ==
    [ out  |-> <<Bullet, SpanTarget(i), "::", SpanName(i)>> \o
               (IF flds # <<>> THEN <<"{">> \o strip_ansi(flds) \o <<"}">> ELSE <<>>),
      cont |-> TRUE ]

\* SpanTrace::new(span).with_spans(callback): from span outward through its
\* ancestors while the callback returns true.
RECURSIVE with_spans(_, _)
with_spans(sp, flds) ==
    IF sp = NoSpan THEN <<>>
    ELSE LET r == trace_callback(sp, flds[sp])
         IN  r.out \o (IF r.cont THEN with_spans(ParentOf(sp), flds) ELSE <<>>)

\* Faulty variant: the trace of the span current when formatting.
display_current(h, msg, alt, flds) ==
    <<msg>> \o (IF alt THEN with_spans(SpanCurrent(stack), flds) ELSE <<>>)

\* Handler::display: the error's own display text, then in alternate form
\* the span trace.
display(h, msg, alt, flds) ==
    <<msg>> \o (IF alt THEN with_spans(h.span, flds) ELSE <<>>)

\* Display of a Report: its handler's display; eyre's default handler writes
\* the message (no cause chain is modelled).
report_display(rep, alt, flds) ==
    IF rep.handler.kind = "Handler" THEN display(rep.handler, rep.msg, alt, flds)
    ELSE <<rep.msg>>

\* Faulty variant: no expect, the disabled span when the downcast fails.
span_or_none(rep) == [panic |-> "", value |-> rep.handler.span]

\* ReportSpan::span: the handler downcast to Handler, expect, its span.
\* panic is the panic message, empty when the call returns.
span(rep) ==
    IF rep.handler.kind = "Handler"
    THEN [panic |-> "", value |-> rep.handler.span]
    ELSE [panic |-> "eyre-span handler", value |-> NoSpan]

\* ------------------------------------------------------------- operations
Msgs == {"boom"}
Payloads == {5}
Idle == [op |-> "none"]
Ok(v) == [tag |-> "Ok", v |-> v, r |-> 0]
Err(r) == [tag |-> "Err", v |-> 0, r |-> r]
Some(v) == [some |-> TRUE, v |-> v]
None == [some |-> FALSE, v |-> 0]
Live == {r \in 1..Len(reports) : reports[r].live}
\* The results emit may be given: any payload, any Report not yet dropped.
Results == {Ok(v) : v \in Payloads} \cup {Err(r) : r \in Live}

\* Faulty variant: the hook is replaced when one is registered.
install_overwrite ==
    /\ hook' = "eyre_span"
    /\ installCalled' = TRUE
    /\ ret' = [op |-> "install", ok |-> TRUE, first |-> ~installCalled,
               hookBefore |-> hook]
    /\ UNCHANGED <<reports, stack, fields, log, text>>

\* install(): eyre::set_hook sets the once-cell, or fails when it is set.
install ==
    /\ hook' = IF hook = "unset" THEN "eyre_span" ELSE hook
    /\ installCalled' = TRUE
    /\ ret' = [op |-> "install", ok |-> hook = "unset", first |-> ~installCalled,
               hookBefore |-> hook]
    /\ UNCHANGED <<reports, stack, fields, log, text>>

\* A Report is created: eyre calls the registered hook for its handler, after
\* registering its default hook if none is set.  ambient and installed record
\* the span current now and whether the crate's hook is the registered one.
report_new(m) ==
    /\ Len(reports) < MaxReports
    /\ LET registered == IF hook = "unset" THEN "default" ELSE hook
           handler == IF registered = "eyre_span" THEN hook_closure(stack)
                      ELSE default_hook(stack)
       IN  /\ hook' = registered
           /\ reports' = Append(reports,
                  [msg |-> m, handler |-> handler, ambient |-> SpanCurrent(stack),
                   installed |-> hook = "eyre_span", live |-> TRUE])
    /\ ret' = [op |-> "new", r |-> Len(reports) + 1]
    /\ UNCHANGED <<installCalled, stack, fields, log, text>>

\* The caller enters a span.
span_enter(i) ==
    /\ Len(stack) < MaxDepth
    /\ stack' = SpanEnter(stack, i)
    /\ ret' = Idle
    /\ UNCHANGED <<hook, installCalled, reports, fields, log, text>>

\* The caller drops the guard of the span it entered last.
span_exit ==
    /\ stack # <<>>
    /\ stack' = SpanExit(stack, stack[Len(stack)].id)
    /\ ret' = Idle
    /\ UNCHANGED <<hook, installCalled, reports, fields, log, text>>

\* report.span() is called.
call_span(r) ==
    /\ ret' = [op |-> "span", r |-> r, res |-> span(reports[r])]
    /\ UNCHANGED <<hook, installCalled, reports, stack, fields, log, text>>

\* The Report is formatted with {} or {:#}.
call_display(r, alt) ==
    /\ ret' = [op |-> "display", r |-> r, alt |-> alt,
               out |-> report_display(reports[r], alt, fields)]
    /\ UNCHANGED <<hook, installCalled, reports, stack, fields, log, text>>

\* Faulty variant: the Ok arm sends an event too.
emit_ok_logs(e) ==
    /\ ret' = [op |-> "emit", arg |-> e, panic |-> "", value |-> Some(e.v),
               stackBefore |-> stack, logBefore |-> Len(log), inside |-> stack]
    /\ log' = Append(log, [level |-> "ERROR", message |-> <<"ok">>,
                           span |-> SpanCurrent(stack)])
    /\ UNCHANGED <<hook, installCalled, reports, stack, fields, text>>

\* emit, the Ok arm: Some(v), nothing else is touched.
emit_ok(e) ==
    /\ ret' = [op |-> "emit", arg |-> e, panic |-> "", value |-> Some(e.v),
               stackBefore |-> stack, logBefore |-> Len(log), inside |-> stack]
    /\ UNCHANGED <<hook, installCalled, reports, stack, fields, log, text>>

\* emit, the Err arm: e.span() (which may panic), then inside its scope one
\* error event with the Report's display text, then None.  fails: the event
\* macro panics inside the scope.  The Report was moved into emit and is
\* dropped by it on every path.
emit_err(e, fails) ==
    LET rep == reports[e.r]
        sp == span(rep)
        sc == in_scope(stack, sp.value)
        ev == [level |-> "ERROR", message |-> report_display(rep, FALSE, fields),
               span |-> SpanCurrent(sc.inside)]
    IN  /\ reports' = [reports EXCEPT ![e.r].live = FALSE]
        /\ IF sp.panic # ""
           THEN /\ ret' = [op |-> "emit", arg |-> e, panic |-> sp.panic, value |-> None,
                           stackBefore |-> stack, logBefore |-> Len(log),
                           inside |-> stack]
                /\ UNCHANGED <<stack, log>>
           ELSE /\ log' = IF fails THEN log ELSE Append(log, ev)
                /\ stack' = sc.after
                /\ ret' = [op |-> "emit", arg |-> e,
                           panic |-> IF fails THEN "event" ELSE "", value |-> None,
                           stackBefore |-> stack, logBefore |-> Len(log),
                           inside |-> sc.inside]
        /\ UNCHANGED <<hook, installCalled, fields, text>>

\* emit(e): the match on the result.
emit(e, fails) == IF e.tag = "Ok" THEN emit_ok(e) ELSE emit_err(e, fails)

\* strip_ansi is applied to the text in place.
call_strip ==
    /\ text' = strip_ansi(text)
    /\ ret' = [op |-> "strip_ansi", arg |-> text]
    /\ UNCHANGED <<hook, installCalled, reports, stack, fields, log>>

\* --------------------------------------------------------- specifications
Init ==
    /\ hook = "unset"
    /\ installCalled = FALSE
    /\ reports = <<>>
    /\ stack = <<>>
    /\ fields = DefaultFields
    /\ log = <<>>
    /\ text = <<>>
    /\ ret = Idle

Next ==
    \/ install
    \/ \E m \in Msgs : report_new(m)
    \/ \E i \in Spans : span_enter(i)
    \/ span_exit
    \/ \E r \in Live : call_span(r)
    \/ \E r \in Live, alt \in BOOLEAN : call_display(r, alt)
    \/ \E e \in Results, fails \in BOOLEAN : emit(e, fails)

Spec == Init /\ [][Next]_vars

\* strip_ansi on every text of at most MaxLen characters.
InitStrip ==
    /\ hook = "unset"
    /\ installCalled = FALSE
    /\ reports = <<>>
    /\ stack = <<>>
    /\ fields = DefaultFields
    /\ log = <<>>
    /\ text \in Texts
    /\ ret = Idle

NextStrip == call_strip

SpecStrip == InitStrip /\ [][NextStrip]_vars

\* Display of one Report made after install, for every captured span and
\* every assignment of field texts to the spans.
InitDisplay ==
    /\ hook = "eyre_span"
    /\ installCalled = TRUE
    /\ \E sp \in Spans \cup {NoSpan}, m \in Msgs :
          reports = << [msg |-> m, handler |-> [kind |-> "Handler", span |-> sp],
                        ambient |-> sp, installed |-> TRUE, live |-> TRUE] >>
    /\ stack = <<>>
    /\ fields \in [Spans -> FieldTexts]
    /\ log = <<>>
    /\ text = <<>>
    /\ ret = Idle

NextDisplay == \E r \in Live, alt \in BOOLEAN : call_display(r, alt)

SpecDisplay == InitDisplay /\ [][NextDisplay]_vars

\* ----------------------------------------------------------------- claims
\* The Report an operation was called on.
RetReport == reports[IF ret.op = "emit" THEN ret.arg.r ELSE ret.r]
EmitErr == ret.op = "emit" /\ ret.arg.tag = "Err"

\* C1: emit(Err(report)) on a Report holding the crate's handler returns None
\* and produces exactly one ERROR event whose message is the Report's display
\* text and whose span is the Report's captured span, whatever span is current
\* where emit is called.
C1_EmitLogsInCapturedSpan ==
    (EmitErr /\ RetReport.handler.kind = "Handler" /\ ret.panic = "") =>
        /\ ret.value = None
        /\ Len(log) = ret.logBefore + 1
        /\ log[Len(log)].level = "ERROR"
        /\ log[Len(log)].message = <<RetReport.msg>>
        /\ log[Len(log)].span = RetReport.handler.span

\* C2: emit(Ok(v)) returns Some(v) and changes nothing: no event, no span
\* entered, no Report or hook touched, no panic, installed or not.
C2_EmitOkPure ==
    [][ (ret'.op = "emit" /\ ret'.arg.tag = "Ok") =>
            /\ ret'.value = Some(ret'.arg.v)
            /\ ret'.panic = ""
            /\ UNCHANGED <<hook, installCalled, reports, stack, fields, log, text>> ]_vars

C2_Witness ==
    /\ ret.op = "emit" /\ ret.arg.tag = "Ok"
    /\ ret.value = Some(5)
    /\ hook = "unset"
    /\ stack # <<>>

\* The span and its ancestors, innermost first.
RECURSIVE Ancestors(_)
Ancestors(sp) == IF sp = NoSpan THEN <<>> ELSE <<sp>> \o Ancestors(ParentOf(sp))

\* C3: the span stored on a Report made with the crate's hook registered is
\* the span that was current at its creation; no later operation changes a
\* Report's handler; span() and the alternate display of the Report give that
\* span (its name on the first trace line), whatever span is current then.
C3_CaptureAtCreation ==
    /\ [](/\ \A r \in 1..Len(reports) :
                reports[r].installed =>
                    /\ reports[r].handler.kind = "Handler"
                    /\ reports[r].handler.span = reports[r].ambient
          /\ (ret.op = "span" /\ RetReport.installed) =>
                ret.res.value = RetReport.ambient
          /\ (ret.op = "display" /\ ret.alt /\ RetReport.installed) =>
                IF RetReport.ambient = NoSpan THEN ret.out = <<RetReport.msg>>
                ELSE /\ Len(ret.out) >= 5
                     /\ ret.out[3] = SpanTarget(RetReport.ambient)
                     /\ ret.out[5] = SpanName(RetReport.ambient))
    /\ [][\A r \in 1..Len(reports) : reports'[r].handler = reports[r].handler]_vars

C3_Witness ==
    /\ ret.op = "display" /\ ret.alt /\ RetReport.installed
    /\ RetReport.ambient = 2
    /\ SpanCurrent(stack) = 3
    /\ ret.out[5] = SpanName(2)

\* C4: span() panics on a Report made while the crate's hook was not the
\* registered one (install never called, or called only after the Report was
\* made); on a Report made after a successful install it returns the span
\* that was current at the Report's creation.
C4_SpanPanicsOrReturnsCaptured ==
    ret.op = "span" =>
        IF RetReport.installed
        THEN ret.res.panic = "" /\ ret.res.value = RetReport.ambient
        ELSE ret.res.panic = "eyre-span handler"

C4_Witness ==
    /\ ret.op = "span"
    /\ ~RetReport.installed
    /\ installCalled
    /\ ret.res.panic = "eyre-span handler"

\* C5 as stated: of the install calls of a process the first succeeds and
\* every later one fails.
C5_FirstInstallSucceeds ==
    ret.op = "install" => (ret.ok <=> ret.first)

\* C5 as amended: install succeeds exactly when no hook is registered yet,
\* which is so on the first call unless a Report was created before it; every
\* later call fails; a failed call leaves the registered hook as it was, a
\* registered hook is never replaced, and a Report gets the crate's handler
\* exactly when the crate's hook is the registered one.
C5_InstallSetOrFail ==
    /\ [](/\ ret.op = "install" =>
                /\ ret.ok <=> ret.hookBefore = "unset"
                /\ ~ret.first => ~ret.ok
                /\ (ret.first /\ ret.hookBefore # "default") => ret.ok
                /\ hook = IF ret.ok THEN "eyre_span" ELSE ret.hookBefore
          /\ ret.op = "new" =>
                (reports[ret.r].handler.kind = "Handler" <=> hook = "eyre_span"))
    /\ [][hook # "unset" => hook' = hook]_vars

C5_Witness ==
    /\ ret.op = "install"
    /\ ~ret.first
    /\ ~ret.ok
    /\ hook = "eyre_span"

\* C6: after emit(Err(report)), returned or unwound, the span stack is what it
\* was before the call; the captured span was entered for the one event, and
\* an event was recorded only when emit returned.
C6_EmitScopeBalanced ==
    EmitErr =>
        /\ stack = ret.stackBefore
        /\ IF ret.panic = ""
           THEN /\ Len(log) = ret.logBefore + 1
                /\ ret.inside = SpanEnter(ret.stackBefore, RetReport.handler.span)
                /\ log[Len(log)].span = SpanCurrent(ret.inside)
           ELSE Len(log) = ret.logBefore

C6_Witness ==
    /\ EmitErr
    /\ ret.panic = "event"
    /\ RetReport.handler.span = 2
    /\ Len(ret.stackBefore) = 1
    /\ Len(ret.inside) = 2
    /\ stack = ret.stackBefore

\* Every escape of s is followed later by an 'm'.
Balanced(s) ==
    \A i \in 1..Len(s) : s[i] = ESC => \E j \in (i + 1)..Len(s) : s[j] = "m"

\* Position i of s lies in an escape sequence: at an escape, or after one with
\* no 'm' strictly between, so up to and including the next 'm'.
InSequence(s, i) ==
    \E j \in 1..i : s[j] = ESC /\ \A k \in (j + 1)..(i - 1) : s[k] # "m"

\* The characters of s at the positions from i on that lie in no sequence.
RECURSIVE OutsideFrom(_, _)
OutsideFrom(s, i) ==
    IF i > Len(s) THEN <<>>
    ELSE (IF InSequence(s, i) THEN <<>> ELSE <<s[i]>>) \o OutsideFrom(s, i + 1)

\* C7: on a text whose escapes are all followed by an 'm', strip_ansi removes
\* exactly the characters from each escape to the next 'm' inclusive and keeps
\* all others, an 'm' outside a sequence too, in their order.
C7_StripRemovesExactlySequences ==
    (ret.op = "strip_ansi" /\ Balanced(ret.arg)) => text = OutsideFrom(ret.arg, 1)

C7_Witness ==
    /\ ret.op = "strip_ansi"
    /\ ret.arg = <<"m", ESC, "[", "m", "a">>
    /\ text = <<"m", "a">>

\* C8: on a text with an escape that no 'm' follows, strip_ansi returns the
\* scrubbed form of the text before that escape and nothing from it onward.
C8_StripUnterminatedDropsRest ==
    ret.op = "strip_ansi" =>
        \A j \in 1..Len(ret.arg) :
            (ret.arg[j] = ESC /\ \A k \in (j + 1)..Len(ret.arg) : ret.arg[k] # "m") =>
                text = strip_ansi(SubSeq(ret.arg, 1, j - 1))

C8_Witness ==
    /\ ret.op = "strip_ansi"
    /\ ret.arg = <<"a", "m", ESC, "[", "a">>
    /\ text = <<"a", "m">>

\* C10: strip_ansi applied to its own output returns it unchanged, and the
\* output holds no escape.
C10_StripIdempotent ==
    ret.op = "strip_ansi" =>
        /\ strip_ansi(text) = text
        /\ \A i \in 1..Len(text) : text[i] # ESC

C10_Witness ==
    /\ ret.op = "strip_ansi"
    /\ ret.arg = <<ESC, "m", "a", ESC, "a">>
    /\ text = <<"a">>

\* One trace line as the format strings of display write it.
TraceLine(i) ==
    <<Bullet, SpanTarget(i), "::", SpanName(i)>> \o
    (IF fields[i] = <<>> THEN <<>> ELSE <<"{">> \o strip_ansi(fields[i]) \o <<"}">>)

\* The lines of the spans chain[k..], in that order.
RECURSIVE TraceLines(_, _)
TraceLines(chain, k) ==
    IF k > Len(chain) THEN <<>> ELSE TraceLine(chain[k]) \o TraceLines(chain, k + 1)

\* C9: the alternate display of a Report is its message followed by one trace
\* line per span of the captured span's ancestor chain, innermost first, each
\* with braces around the scrubbed field text exactly when the span has field
\* text; no escape is written; the plain display is the message alone.
C9_DisplayTrace ==
    ret.op = "display" =>
        LET chain == Ancestors(RetReport.handler.span)
        IN  /\ ret.out = <<RetReport.msg>> \o (IF ret.alt THEN TraceLines(chain, 1) ELSE <<>>)
            /\ Cardinality({k \in 1..Len(ret.out) : ret.out[k] = Bullet})
                 = IF ret.alt THEN Len(chain) ELSE 0
            /\ \A k \in 1..Len(ret.out) : ret.out[k] # ESC

C9_Witness ==
    /\ ret.op = "display" /\ ret.alt
    /\ RetReport.handler.span = 3
    /\ fields[3] = <<ESC, "[", "m", "a", ESC, "[", "m">>
    /\ fields[2] = <<>>
    /\ fields[1] = <<"a">>
    /\ ret.out = <<"boom", Bullet, "mod3", "::", "span3", "{", "a", "}",
                   Bullet, "mod2", "::", "span2",
                   Bullet, "mod1", "::", "span1", "{", "a", "}">>

====
